---- MODULE Spec2Model ----
(***************************************************************************)
(* Pose3dLocalVisualizer (mmpose/visualization/local_visualizer_3d.py):    *)
(* one add_datasample call, from its arguments to its return value or to   *)
(* the exception that leaves it.  The 2D overlay renderer                  *)
(* (_draw_instances_kpts) is one step; the 3D plotter                      *)
(* (_draw_3d_data_samples) is unfolded figure by figure, so that the       *)
(* lifetime of every matplotlib figure is visible.                         *)
(*                                                                         *)
(* Scores are integers in 0..One (One stands for 1.0), keypoints and       *)
(* instances are numbered from 1 (index idx of the code is idx + 1 here),  *)
(* the native skeleton style ('mmpose') is the one modelled.               *)
(***************************************************************************)
EXTENDS Integers, Sequences, FiniteSets, TLC

\* ------------------------------------------------------------------ bounds
NumKpts == 2
MaxInst == 2
MaxNum == 3
MaxTrack == 1

\* the value np.ones fills a score array with, in score units
One == 2

Kpts == 1..NumKpts
Scores == 0..One
Row == [Kpts -> Scores]
TrackIds == (-1)..MaxTrack

\* ------------------------------------------------------------------ helpers
RECURSIVE SumTo(_, _)
SumTo(row, k) == IF k = 0 THEN 0 ELSE row[k] + SumTo(row, k - 1)

\* np.mean(row) < thr, over integers
MeanBelow(row, thr) == SumTo(row, NumKpts) < thr * NumKpts

Min2(a, b) == IF a < b THEN a ELSE b

Ones_Zeros(n) == [i \in 1..n |-> [k \in Kpts |-> 0]]

\* np.ones(keypoints.shape[:-1]), lines 271, 274, 279, 347, 352
Ones(n) == [i \in 1..n |-> [k \in Kpts |-> One]]

\* a color setting: None, one color name, or one color per entry (some of
\* which may be None)
NoColor == [kind |-> "none", len |-> 0, unset |-> {}]
StrColor == [kind |-> "str", len |-> 0, unset |-> {}]
ListColor(n, u) == [kind |-> "list", len |-> n, unset |-> u]

\* a skeleton setting: None, or a list of bones (pairs of keypoint numbers)
NoSkeleton == [set |-> FALSE, bones |-> <<>>]
Chain == [set |-> TRUE, bones |-> [b \in 1..(NumKpts - 1) |-> <<b, b + 1>>]]

\* a data sample without pred_instances, and one with n instances
NoSample ==
  [has_pred |-> FALSE, has_kpts |-> FALSE, has_scores |-> FALSE, n |-> 0,
   scores |-> <<>>, visible |-> <<>>, xy |-> <<>>]

Sample(sc, vis, pos) ==
  [has_pred |-> TRUE, has_kpts |-> TRUE, has_scores |-> TRUE, n |-> Len(sc),
   scores |-> sc, visible |-> vis, xy |-> pos]

\* dictionaries
EmptyDict == [key \in {} |-> 0]
Put(d, key, val) ==
  [x \in (DOMAIN d) \cup {key} |-> IF x = key THEN val ELSE d[x]]

NoImage == [present |-> FALSE, circles |-> {}, lines |-> {}, rgb |-> FALSE]
NoScores == [present |-> FALSE, rows |-> <<>>]
NoAxes == [src |-> 0, title |-> "", scatter |-> FALSE, bones |-> {}]

VARIABLES
  args,             \* the arguments of add_datasample
  self,             \* the visualizer's configuration
  pc,               \* where the call is
  err,              \* the exception that left the call ("" if none)
  pose_2d_data,     \* add_datasample: the overlay
  scores_2d,        \* add_datasample / plotter: the 2D gate scores
  num_instances,    \* plotter: the count, as reassigned at line 137
  pred_instances,   \* plotter: positions of the instances kept
  need_dummy_plot,  \* plotter
  pose3d_data_dic,  \* plotter: key -> plot
  idx,              \* plotter: instances consumed by the loop of line 167
  skip,             \* plotter: line 168 / 177
  ax,               \* plotter: what is drawn on the current figure
  fig,              \* plotter: stage of the current figure
  open_figs,        \* pyplot: figures created and not closed
  num_dummy_plots,  \* plotter: line 286
  i                 \* plotter: placeholders made by the loop of line 287

vars == <<args, self, pc, err, pose_2d_data, scores_2d, num_instances,
          pred_instances, need_dummy_plot, pose3d_data_dic, idx, skip, ax,
          fig, open_figs, num_dummy_plots, i>>

inputs == <<args, self>>
plotter == <<num_instances, pred_instances, need_dummy_plot, pose3d_data_dic,
             idx, skip, ax, fig, open_figs, num_dummy_plots, i>>

\* ------------------------------------------------- 2D overlay renderer
\* int(x) of a coordinate kept in half pixels (truncation towards zero)
PixelOf(h) == IF h >= 0 THEN h \div 2 ELSE -((-h) \div 2)

\* the color, skeleton and bone color the 2D renderer uses (lines 381-383,
\* 431-436)
Det2dKptColor ==
  IF self.det_kpt_color.kind # "none" THEN self.det_kpt_color
  ELSE self.kpt_color
Det2dSkeleton ==
  IF self.det_dataset_skeleton.set THEN self.det_dataset_skeleton
  ELSE self.skeleton
Det2dLinkColor ==
  IF self.det_dataset_link_color.kind # "none"
  THEN self.det_dataset_link_color
  ELSE self.link_color

KptColorMismatch_Never(c) == FALSE

\* lines 392-399 and 215-220; lines 438-446 and 233-238
KptColorMismatch(c) == c.kind = "list" /\ c.len # NumKpts
LinkColorMismatch(c, sk) == c.kind = "list" /\ c.len # Len(sk.bones)
ColorUnsetAt(c, k) == c.kind = "none" \/ (c.kind = "list" /\ k \in c.unset)

Tracked2d_All(det, tids) == 1..det.n

\* the instances the loop of line 385 does not skip
Tracked2d(det, tids) == {p \in 1..det.n : tids[p] # -1}

Scores2dOf(det) == IF det.has_scores THEN det.scores ELSE Ones(det.n)

\* the exception _draw_instances_kpts raises, "" if it returns
Raises2d(det, tids) ==
  IF ~det.has_kpts \/ Tracked2d(det, tids) = {} THEN ""
  ELSE IF KptColorMismatch(Det2dKptColor) THEN "ValueError"
  ELSE IF /\ Det2dSkeleton.set
          /\ Det2dLinkColor.kind # "none"
          /\ LinkColorMismatch(Det2dLinkColor, Det2dSkeleton)
       THEN "ValueError"
  ELSE ""

KptDrawn2d_Strict(det, p, k, thr) ==
  ~(\/ Scores2dOf(det)[p][k] <= thr
    \/ ~det.visible[p][k]
    \/ ColorUnsetAt(Det2dKptColor, k))

\* lines 403-406
KptDrawn2d(det, p, k, thr) ==
  ~(\/ Scores2dOf(det)[p][k] < thr
    \/ ~det.visible[p][k]
    \/ ColorUnsetAt(Det2dKptColor, k))

InsideImage_Inclusive(pos, img) ==
  ~(\/ PixelOf(pos[1]) < 0 \/ PixelOf(pos[1]) > img.w
    \/ PixelOf(pos[2]) < 0 \/ PixelOf(pos[2]) > img.h)

\* lines 454-457
InsideImage(pos, img) ==
  ~(\/ PixelOf(pos[1]) <= 0 \/ PixelOf(pos[1]) >= img.w
    \/ PixelOf(pos[2]) <= 0 \/ PixelOf(pos[2]) >= img.h)

BoneDrawn2d(det, p, b, thr, img) ==
  LET sk == Det2dSkeleton.bones[b] IN
  /\ det.visible[p][sk[1]] /\ det.visible[p][sk[2]]
  /\ InsideImage(det.xy[p][sk[1]], img)
  /\ InsideImage(det.xy[p][sk[2]], img)
  /\ ~(Scores2dOf(det)[p][sk[1]] < thr \/ Scores2dOf(det)[p][sk[2]] < thr)
  /\ ~ColorUnsetAt(Det2dLinkColor, b)

Circles2d(det, tids, thr) ==
  {c \in Tracked2d(det, tids) \X Kpts : KptDrawn2d(det, c[1], c[2], thr)}

Lines2d(det, tids, thr, img) ==
  IF Det2dSkeleton.set /\ Det2dLinkColor.kind # "none"
  THEN {l \in Tracked2d(det, tids) \X (1..Len(Det2dSkeleton.bones)) :
          BoneDrawn2d(det, l[1], l[2], thr, img)}
  ELSE {}

\* the score array _draw_instances_kpts returns
ReturnedScores2d(det) ==
  IF det.has_kpts THEN [present |-> TRUE, rows |-> Scores2dOf(det)]
  ELSE NoScores

\* the external topology remap: the same instances, the keypoints reordered
ConvertKeypointDefinition(rows) ==
  [p \in 1..Len(rows) |-> [k \in Kpts |-> rows[p][NumKpts + 1 - k]]]

\* ------------------------------------------------- add_datasample
InitialOverlay_None(draw_2d) == NoImage

\* lines 565, 568-569: None, or a copy of the image when 2D drawing is on
InitialOverlay(draw_2d) ==
  IF draw_2d
  THEN [present |-> TRUE, circles |-> {}, lines |-> {}, rgb |-> FALSE]
  ELSE NoImage

\* lines 565-573
Begin ==
  /\ pc = "start"
  /\ pose_2d_data' = InitialOverlay(args.draw_2d)
  /\ scores_2d' = NoScores
  /\ pc' = IF args.draw_2d /\ args.det_data_sample.has_pred
           THEN "draw2d" ELSE "convert"
  /\ UNCHANGED <<inputs, err, plotter>>

\* lines 574-580: the call of _draw_instances_kpts (lines 336-494)
DrawInstancesKpts ==
  /\ pc = "draw2d"
  /\ LET det == args.det_data_sample
         e == Raises2d(det, args.track_ids) IN
     IF e # ""
     THEN /\ pc' = "raised"
          /\ err' = e
          /\ UNCHANGED <<pose_2d_data, scores_2d>>
     ELSE /\ pc' = "convert"
          /\ pose_2d_data' =
               [present |-> TRUE,
                circles |-> IF det.has_kpts
                            THEN Circles2d(det, args.track_ids, args.kpt_thr)
                            ELSE {},
                lines |-> IF det.has_kpts
                          THEN Lines2d(det, args.track_ids, args.kpt_thr,
                                       args.image)
                          ELSE {},
                rgb |-> FALSE]
          /\ scores_2d' = ReturnedScores2d(det)
          /\ UNCHANGED err
  /\ UNCHANGED <<inputs, plotter>>

\* lines 584-589
Convert ==
  /\ pc = "convert"
  /\ scores_2d' =
       IF scores_2d.present /\ args.convert_keypoint
       THEN [present |-> TRUE,
             rows |-> ConvertKeypointDefinition(scores_2d.rows)]
       ELSE scores_2d
  /\ pc' = "select"
  /\ UNCHANGED <<inputs, err, pose_2d_data, plotter>>

\* ------------------------------------------------- _draw_3d_data_samples
Scores3dOf(d) == IF d.has_scores THEN d.scores ELSE Ones(d.n)

\* line 141: the sample is cut to the first N instances
Truncates(len, N) == len > N

SelectInstances_KeepAll(d, N) ==
  IF N < 0
  THEN <<IF d.has_kpts THEN d.n ELSE 0, d.n, FALSE>>
  ELSE IF Truncates(d.n, N) THEN <<N, d.n, FALSE>>
  ELSE <<N, d.n, TRUE>>

\* lines 135-148: <<num_instances, number of instances kept, need_dummy_plot>>
SelectInstances(d, N) ==
  IF N < 0
  THEN <<IF d.has_kpts THEN d.n ELSE 0, d.n, FALSE>>
  ELSE IF Truncates(d.n, N) THEN <<N, N, FALSE>>
  ELSE <<N, d.n, TRUE>>

\* line 167: zip stops at the shortest of keypoints, scores and scores_2d
ZipLen(kept, gate) == Min2(Len(kept), Len(gate))

SkipRender_Both(score, score_2d, thr) ==
  MeanBelow(score, thr) /\ MeanBelow(score_2d, thr)

\* line 176
SkipRender(score, score_2d, thr) ==
  MeanBelow(score, thr) \/ MeanBelow(score_2d, thr)

BonePasses3d_Inclusive(score, score_2d, b, thr) ==
  LET sk == self.skeleton.bones[b] IN
  /\ Min2(score[sk[1]], score[sk[2]]) >= thr
  /\ Min2(score_2d[sk[1]], score_2d[sk[2]]) >= thr

\* line 247
BonePasses3d(score, score_2d, b, thr) ==
  LET sk == self.skeleton.bones[b] IN
  /\ Min2(score[sk[1]], score[sk[2]]) > thr
  /\ Min2(score_2d[sk[1]], score_2d[sk[2]]) > thr

Bones3d(score, score_2d, thr) ==
  IF self.skeleton.set /\ self.link_color.kind # "none"
  THEN {b \in 1..Len(self.skeleton.bones) :
          BonePasses3d(score, score_2d, b, thr)}
  ELSE {}

\* lines 215-249: the exception the drawing branch raises, "" if none.  A
\* color list is an array; [color] * n / 255. (line 224), a color name or a
\* None entry divided by 255. (lines 224, 248) are TypeErrors.
Raises3d(score, score_2d, thr) ==
  IF KptColorMismatch(self.kpt_color) THEN "ValueError"
  ELSE IF self.kpt_color.kind # "list" \/ self.kpt_color.unset # {}
       THEN "TypeError"
  ELSE IF self.skeleton.set /\ self.link_color.kind # "none"
       THEN IF LinkColorMismatch(self.link_color, self.skeleton)
            THEN "ValueError"
            ELSE IF \E b \in Bones3d(score, score_2d, thr) :
                      \/ self.link_color.kind = "str"
                      \/ b \in self.link_color.unset
                 THEN "TypeError"
                 ELSE ""
  ELSE ""

NumDummyPlots_ByLength(n, dic) == n - Len(pred_instances)

\* line 286
NumDummyPlots(n, dic) == n - Cardinality(DOMAIN dic)

DummyKey_FromMinusOne(j) == -1 * (j + 1)

\* line 308
DummyKey(j) == -1 * (j + 2)

\* lines 127-148 and 266-279
Select ==
  /\ pc = "select"
  /\ LET d == args.data_sample
         sel == SelectInstances(d, args.num_instances) IN
     /\ num_instances' = sel[1]
     /\ pred_instances' = [p \in 1..sel[2] |-> p]
     /\ need_dummy_plot' = sel[3]
     /\ pose3d_data_dic' = EmptyDict
     /\ idx' = 0
     /\ IF d.has_kpts
        THEN /\ scores_2d' = IF scores_2d.present THEN scores_2d
                             ELSE [present |-> TRUE, rows |-> Ones(sel[2])]
             /\ pc' = "loop"
        ELSE /\ pc' = "pad"
             /\ UNCHANGED scores_2d
  /\ UNCHANGED <<inputs, err, pose_2d_data, skip, ax, fig, open_figs,
                 num_dummy_plots, i>>

\* lines 167-198: the next instance, its skip flag and its figure
NextInstance ==
  /\ pc = "loop"
  /\ IF idx >= ZipLen(pred_instances, scores_2d.rows)
     THEN /\ pc' = "pad"
          /\ UNCHANGED <<idx, skip, ax, fig, open_figs>>
     ELSE IF args.track_ids[idx + 1] = -1
     THEN /\ idx' = idx + 1
          /\ skip' = FALSE
          /\ UNCHANGED <<pc, ax, fig, open_figs>>
     ELSE /\ skip' = SkipRender(
                       Scores3dOf(args.data_sample)[pred_instances[idx + 1]],
                       scores_2d.rows[idx + 1], args.kpt_thr)
          /\ fig' = "pending"
          /\ open_figs' = open_figs + 1
          /\ ax' = [src |-> pred_instances[idx + 1], title |-> "Track id",
                    scatter |-> FALSE, bones |-> {}]
          /\ pc' = "figure"
          /\ UNCHANGED idx
  /\ UNCHANGED <<inputs, err, pose_2d_data, scores_2d, num_instances,
                 pred_instances, need_dummy_plot, pose3d_data_dic,
                 num_dummy_plots, i>>

\* lines 200-252: the empty plot of a skipped instance, or scatter and bones
DrawFigure ==
  /\ pc = "figure"
  /\ LET score == Scores3dOf(args.data_sample)[pred_instances[idx + 1]]
         score_2d == scores_2d.rows[idx + 1]
         e == Raises3d(score, score_2d, args.kpt_thr) IN
     IF skip
     THEN /\ fig' = "skipped"
          /\ pc' = "drawn"
          /\ UNCHANGED <<ax, err>>
     ELSE IF e # ""
     THEN /\ pc' = "raised"
          /\ err' = e
          /\ UNCHANGED <<ax, fig>>
     ELSE /\ ax' = [ax EXCEPT !.scatter = TRUE,
                              !.bones = Bones3d(score, score_2d,
                                                args.kpt_thr)]
          /\ fig' = "rendered"
          /\ pc' = "drawn"
          /\ UNCHANGED err
  /\ UNCHANGED <<inputs, pose_2d_data, scores_2d, num_instances,
                 pred_instances, need_dummy_plot, pose3d_data_dic, idx, skip,
                 open_figs, num_dummy_plots, i>>

\* lines 254-259: the canvas is read into pred_img_data
CaptureFigure ==
  /\ pc = "drawn"
  /\ fig' = "captured"
  /\ pc' = "captured"
  /\ UNCHANGED <<inputs, err, pose_2d_data, scores_2d, num_instances,
                 pred_instances, need_dummy_plot, pose3d_data_dic, idx, skip,
                 ax, open_figs, num_dummy_plots, i>>

\* lines 261-264: the figure is closed and the plot stored under the track id
CloseFigure ==
  /\ pc = "captured"
  /\ fig' = "released"
  /\ open_figs' = open_figs - 1
  /\ pose3d_data_dic' = Put(pose3d_data_dic, args.track_ids[idx + 1], ax)
  /\ idx' = idx + 1
  /\ pc' = "loop"
  /\ UNCHANGED <<inputs, err, pose_2d_data, scores_2d, num_instances,
                 pred_instances, need_dummy_plot, skip, ax, num_dummy_plots,
                 i>>

\* lines 285-286
Pad ==
  /\ pc = "pad"
  /\ IF need_dummy_plot
     THEN /\ num_dummy_plots' = NumDummyPlots(num_instances, pose3d_data_dic)
          /\ i' = 0
          /\ pc' = "dummy"
     ELSE /\ pc' = "finish"
          /\ UNCHANGED <<num_dummy_plots, i>>
  /\ UNCHANGED <<inputs, err, pose_2d_data, scores_2d, num_instances,
                 pred_instances, need_dummy_plot, pose3d_data_dic, idx, skip,
                 ax, fig, open_figs>>

\* lines 287-301: the figure of the next 'NO DATA' plot
DummyFigure ==
  /\ pc = "dummy"
  /\ IF i >= num_dummy_plots
     THEN /\ pc' = "finish"
          /\ UNCHANGED <<ax, fig, open_figs>>
     ELSE /\ ax' = [src |-> 0, title |-> "NO DATA", scatter |-> FALSE,
                    bones |-> {}]
          /\ fig' = "rendered"
          /\ open_figs' = open_figs + 1
          /\ pc' = "dummy_drawn"
  /\ UNCHANGED <<inputs, err, pose_2d_data, scores_2d, num_instances,
                 pred_instances, need_dummy_plot, pose3d_data_dic, idx, skip,
                 num_dummy_plots, i>>

\* lines 302-306
DummyCapture ==
  /\ pc = "dummy_drawn"
  /\ fig' = "captured"
  /\ pc' = "dummy_captured"
  /\ UNCHANGED <<inputs, err, pose_2d_data, scores_2d, num_instances,
                 pred_instances, need_dummy_plot, pose3d_data_dic, idx, skip,
                 ax, open_figs, num_dummy_plots, i>>

\* lines 307-308
DummyClose ==
  /\ pc = "dummy_captured"
  /\ fig' = "released"
  /\ open_figs' = open_figs - 1
  /\ pose3d_data_dic' = Put(pose3d_data_dic, DummyKey(i), ax)
  /\ i' = i + 1
  /\ pc' = "dummy"
  /\ UNCHANGED <<inputs, err, pose_2d_data, scores_2d, num_instances,
                 pred_instances, need_dummy_plot, idx, skip, ax,
                 num_dummy_plots>>

\* lines 310 and 603-606: the map is returned, the overlay turned to RGB
Finish ==
  /\ pc = "finish"
  /\ pose_2d_data' = IF pose_2d_data.present
                     THEN [pose_2d_data EXCEPT !.rgb = TRUE]
                     ELSE pose_2d_data
  /\ pc' = "done"
  /\ UNCHANGED <<inputs, err, scores_2d, plotter>>

Next ==
  \/ Begin
  \/ DrawInstancesKpts
  \/ Convert
  \/ Select
  \/ NextInstance
  \/ DrawFigure
  \/ CaptureFigure
  \/ CloseFigure
  \/ Pad
  \/ DummyFigure
  \/ DummyCapture
  \/ DummyClose
  \/ Finish

\* ------------------------------------------------- the calls explored
AllVisible(n) == [p \in 1..n |-> [k \in Kpts |-> TRUE]]
\* every keypoint at pixel (1, 1) of a 2 x 2 image
Centered(n) == [p \in 1..n |-> [k \in Kpts |-> <<2, 2>>]]
SmallImage == [w |-> 2, h |-> 2]

\* score rows all 0.0 or all 1.0
UniformRows == {[k \in Kpts |-> c] : c \in {0, One}}

ScoreArrays(rows) == UNION {[1..n -> rows] : n \in 0..MaxInst}

FullSample(sc) == Sample(sc, AllVisible(Len(sc)), Centered(Len(sc)))

\* pred_instances without keypoints, and instances without keypoint_scores
BareSample == [NoSample EXCEPT !.has_pred = TRUE]
Unscored(n) == [FullSample(Ones(n)) EXCEPT !.has_scores = FALSE,
                                           !.scores = <<>>]

Samples(rows) ==
  {NoSample, BareSample, Unscored(MaxInst)} \cup
  {FullSample(sc) : sc \in ScoreArrays(rows)}

\* configurations: arrays of the right and of a wrong length, a color name,
\* no color, no skeleton, and the detection overrides
GoodConfig ==
  [kpt_color |-> ListColor(NumKpts, {}),
   link_color |-> ListColor(NumKpts - 1, {}),
   skeleton |-> Chain,
   det_kpt_color |-> NoColor,
   det_dataset_skeleton |-> NoSkeleton,
   det_dataset_link_color |-> NoColor]

Configs ==
  {GoodConfig,
   [GoodConfig EXCEPT !.kpt_color = ListColor(NumKpts + 1, {})],
   [GoodConfig EXCEPT !.link_color = ListColor(NumKpts, {})],
   [GoodConfig EXCEPT !.kpt_color = StrColor],
   [GoodConfig EXCEPT !.skeleton = NoSkeleton, !.link_color = NoColor],
   [GoodConfig EXCEPT !.kpt_color = ListColor(NumKpts + 1, {}),
                      !.det_kpt_color = ListColor(NumKpts, {}),
                      !.det_dataset_skeleton = Chain,
                      !.det_dataset_link_color = ListColor(NumKpts - 1, {})]}

Idle ==
  /\ pc = "start"
  /\ err = ""
  /\ pose_2d_data = NoImage
  /\ scores_2d = NoScores
  /\ num_instances = 0
  /\ pred_instances = <<>>
  /\ need_dummy_plot = FALSE
  /\ pose3d_data_dic = EmptyDict
  /\ idx = 0
  /\ skip = FALSE
  /\ ax = NoAxes
  /\ fig = "none"
  /\ open_figs = 0
  /\ num_dummy_plots = 0
  /\ i = 0

\* every combination of a 3D sample, a 2D sample, track ids, a count and a
\* configuration; with 2D drawing off the 2D sample is never read, and two
\* of them stand for all
Init ==
  /\ args \in {a \in [image : {SmallImage},
                       data_sample : Samples(UniformRows),
                       det_data_sample : Samples(UniformRows),
                       track_ids : [1..MaxInst -> TrackIds],
                       draw_2d : BOOLEAN,
                       convert_keypoint : {TRUE},
                       num_instances : (-1)..MaxNum,
                       kpt_thr : {1}] :
                  a.draw_2d \/ a.det_data_sample \in {NoSample,
                                                      Unscored(MaxInst)}}
  /\ self \in Configs
  /\ Idle

Spec == Init /\ [][Next]_vars

\* calls on at most one instance, with every row of scores, every threshold
\* up to 1.5 and the topology conversion on or off
GateSamples == {FullSample(<<r>>) : r \in Row}

GateInit ==
  /\ args \in [image : {SmallImage},
               data_sample : GateSamples,
               det_data_sample : {NoSample} \cup GateSamples,
               track_ids : [1..1 -> TrackIds],
               draw_2d : BOOLEAN,
               convert_keypoint : BOOLEAN,
               num_instances : {0, 2},
               kpt_thr : 1..(One + 1)]
  /\ self \in {GoodConfig,
               [GoodConfig EXCEPT !.skeleton = NoSkeleton,
                                  !.link_color = NoColor]}
  /\ Idle

SpecGate == GateInit /\ [][Next]_vars

\* 2D overlays of two detections, the first with every row of scores and
\* every visibility, under every kind of keypoint color, at thresholds 0.5
\* and 1.0
KptSamples ==
  {Sample(<<r, [k \in Kpts |-> One]>>, <<v, [k \in Kpts |-> TRUE]>>,
          Centered(2)) : r \in Row, v \in [Kpts -> BOOLEAN]}

KptConfigs ==
  {[GoodConfig EXCEPT !.kpt_color = c, !.det_kpt_color = d] :
     c \in {ListColor(NumKpts, {}), NoColor},
     d \in {NoColor, StrColor, ListColor(NumKpts, {}),
            ListColor(NumKpts, {1})}}

KptInit ==
  /\ args \in [image : {SmallImage},
               data_sample : {FullSample(Ones(1))},
               det_data_sample : KptSamples,
               track_ids : [1..2 -> TrackIds],
               draw_2d : {TRUE},
               convert_keypoint : {TRUE},
               num_instances : {2},
               kpt_thr : {1, One}]
  /\ self \in KptConfigs

\* 2D overlays of one detection with every row of scores, every visibility
\* and its keypoints on, inside and past the borders of the 2 x 2 image
\* (coordinates 0.5, 1.0, 1.5 and 2.0), under every kind of bone color
BonePositions == {<<1, 2>>, <<2, 2>>, <<3, 3>>, <<4, 2>>, <<2, 1>>, <<2, 4>>}

\* the endpoints of the first bone take every position, the other keypoints
\* stay at pixel (1, 1)
BoneLayouts ==
  {[k \in Kpts |-> IF k = 1 THEN a ELSE IF k = 2 THEN b ELSE <<2, 2>>] :
     a \in BonePositions, b \in BonePositions}

BoneSamples ==
  {Sample(<<r>>, <<v>>, <<pos>>) :
     r \in Row, v \in [Kpts -> BOOLEAN], pos \in BoneLayouts}

BoneConfigs ==
  {[GoodConfig EXCEPT !.det_dataset_link_color = d] :
     d \in {NoColor, StrColor, ListColor(NumKpts - 1, {}),
            ListColor(NumKpts - 1, {1})}}
  \cup {[GoodConfig EXCEPT !.link_color = NoColor],
        [GoodConfig EXCEPT !.skeleton = NoSkeleton,
                           !.det_dataset_skeleton = Chain]}

BoneInit ==
  /\ args \in [image : {SmallImage},
               data_sample : {FullSample(Ones(1))},
               det_data_sample : BoneSamples,
               track_ids : [1..1 -> TrackIds],
               draw_2d : {TRUE},
               convert_keypoint : {TRUE},
               num_instances : {1},
               kpt_thr : {1}]
  /\ self \in BoneConfigs

Init2d == (KptInit \/ BoneInit) /\ Idle

Spec2d == Init2d /\ [][Next]_vars

\* ------------------------------------------------- properties
Returned == pc = "done"
Requested == args.num_instances
Instances3d == args.data_sample.n
PlaceholderKeys == {k \in DOMAIN pose3d_data_dic : pose3d_data_dic[k].src = 0}
RealKeys == {k \in DOMAIN pose3d_data_dic : pose3d_data_dic[k].src # 0}
Tracked3d == {p \in 1..Instances3d : args.track_ids[p] # -1}
TrackedIds3d == {args.track_ids[p] : p \in Tracked3d}
InPlotter == pc \notin {"start", "draw2d", "convert", "select", "raised"}

\* C1 (as claimed): a call with N >= 0 on a sample of at most N instances
\* returns a map of exactly N entries, one under the track id of every
\* instance whose track id is not -1, the rest placeholders.
C1_AsClaimed ==
  (Returned /\ Requested >= 0 /\ Instances3d <= Requested) =>
    /\ Cardinality(DOMAIN pose3d_data_dic) = Requested
    /\ RealKeys = TrackedIds3d
    /\ Cardinality(PlaceholderKeys) = Requested - Cardinality(TrackedIds3d)

\* C2 (as claimed): whatever the instances and their track ids, a call with
\* N >= 0 returns a map of exactly N entries.
C2_AsClaimed ==
  (Returned /\ Requested >= 0) =>
    Cardinality(DOMAIN pose3d_data_dic) = Requested

\* C3 (as claimed): with A <= N instances all are kept and N - A placeholders
\* are made.
C3_AsClaimed ==
  (Returned /\ Requested >= 0 /\ Instances3d <= Requested) =>
    /\ Len(pred_instances) = Instances3d
    /\ Cardinality(PlaceholderKeys) = Requested - Instances3d

\* C3 (amended): with A <= N instances all are kept, and the number of
\* placeholders is N minus the number of entries the instances left in the
\* map; it is N - A when every instance has a track id of its own other than
\* -1 and a row of gate scores.
C3_PaddingDeficit ==
  (Returned /\ Requested >= 0 /\ Instances3d <= Requested) =>
    /\ Len(pred_instances) = Instances3d
    /\ Cardinality(PlaceholderKeys) = Requested - Cardinality(RealKeys)
    /\ ( /\ Cardinality(TrackedIds3d) = Instances3d
         /\ args.data_sample.has_kpts => Len(scores_2d.rows) >= Instances3d )
       => Cardinality(PlaceholderKeys) = Requested - Instances3d

C3_Witness ==
  /\ Returned /\ Requested >= 0 /\ Instances3d <= Requested
  /\ Instances3d >= 2
  /\ Cardinality(RealKeys) = 1
  /\ \E p \in 1..Instances3d : args.track_ids[p] = -1
  /\ Cardinality(PlaceholderKeys) = Requested - Instances3d + 1

\* C4: with more than N >= 0 instances the plotter works on the first N, in
\* their order; every entry of the map is the plot of one of them, under its
\* track id, and no placeholder is made.
C4_Truncation ==
  (InPlotter /\ Requested >= 0 /\ Instances3d > Requested) =>
    /\ pred_instances = [p \in 1..Requested |-> p]
    /\ ~need_dummy_plot
    /\ pc \notin {"dummy", "dummy_drawn", "dummy_captured"}
    /\ \A k \in DOMAIN pose3d_data_dic :
         /\ pose3d_data_dic[k].src \in 1..Requested
         /\ k = args.track_ids[pose3d_data_dic[k].src]

C4_Witness ==
  /\ Returned /\ Requested >= 1 /\ Instances3d > Requested
  /\ Cardinality(DOMAIN pose3d_data_dic) = Requested
  /\ args.track_ids[Requested + 1] \notin DOMAIN pose3d_data_dic
  /\ args.track_ids[Requested + 1] # -1

\* C5: the placeholders are keyed -2, -3, ...: their keys differ from each
\* other, from -1 and from every track id, and every instance the plotter
\* drew keeps its own plot under its track id.
C5_PlaceholderKeys ==
  /\ PlaceholderKeys =
       {-(j + 1) : j \in 1..Cardinality(PlaceholderKeys)}
  /\ -1 \notin DOMAIN pose3d_data_dic
  /\ InPlotter =>
       \A p \in 1..idx : args.track_ids[p] # -1 =>
         /\ args.track_ids[p] \in RealKeys
         /\ args.track_ids[pose3d_data_dic[args.track_ids[p]].src]
              = args.track_ids[p]

C5_Witness ==
  /\ Returned
  /\ Cardinality(PlaceholderKeys) >= 2
  /\ RealKeys # {}

Det == args.det_data_sample

LowOnAverage(row) == SumTo(row, NumKpts) < args.kpt_thr * NumKpts
GatedOut(p) ==
  \/ LowOnAverage(Scores3dOf(args.data_sample)[p])
  \/ LowOnAverage(scores_2d.rows[p])

\* C7: the plot of a processed instance with a track id other than -1 has no
\* scatter and no bones exactly when the mean of its 3D scores or the mean
\* of its 2D gate scores is below the threshold, and drawn or not the plot
\* is in the returned map under the track id.
C7_CrossModalGate ==
  /\ pc \in {"drawn", "captured"} =>
       /\ (~ax.scatter /\ ax.bones = {}) <=> GatedOut(idx + 1)
       /\ ax.scatter <=> ~GatedOut(idx + 1)
  /\ Returned =>
       /\ \A p \in 1..idx : args.track_ids[p] # -1 =>
            args.track_ids[p] \in RealKeys
       /\ \A k \in RealKeys :
            pose3d_data_dic[k].scatter <=> ~GatedOut(pose3d_data_dic[k].src)

C7_Witness ==
  /\ Returned
  /\ \E k \in RealKeys :
       /\ ~pose3d_data_dic[k].scatter
       /\ LowOnAverage(Scores3dOf(args.data_sample)[pose3d_data_dic[k].src])
       /\ ~LowOnAverage(scores_2d.rows[pose3d_data_dic[k].src])
       /\ \E kp \in Kpts :
            Scores3dOf(args.data_sample)[pose3d_data_dic[k].src][kp]
              >= args.kpt_thr

\* C8 (as claimed): the overlay is None exactly when 2D drawing is off or
\* there is no 2D detection sample with predicted instances.
C8_AsClaimed ==
  Returned =>
    (~pose_2d_data.present <=> (~args.draw_2d \/ ~Det.has_pred))

\* C8 (amended): the overlay is None exactly when 2D drawing is off; with 2D
\* drawing on and no detections it is the copy of the image with nothing
\* drawn on it.
C8_Overlay ==
  Returned =>
    /\ pose_2d_data.present <=> args.draw_2d
    /\ pose_2d_data.present => pose_2d_data.rgb
    /\ (args.draw_2d /\ ~Det.has_pred) =>
         (pose_2d_data.circles = {} /\ pose_2d_data.lines = {})

C8_Witness ==
  /\ Returned
  /\ args.draw_2d /\ ~Det.has_pred
  /\ pose_2d_data.present

\* a list of the wrong length among the colors the 3D plotter uses, and
\* among those the 2D renderer uses
WrongLength(c, n) == c.kind = "list" /\ c.len # n
Mismatch3d ==
  \/ WrongLength(self.kpt_color, NumKpts)
  \/ /\ self.skeleton.set
     /\ WrongLength(self.link_color, Len(self.skeleton.bones))
Mismatch2d ==
  \/ WrongLength(Det2dKptColor, NumKpts)
  \/ /\ Det2dSkeleton.set
     /\ WrongLength(Det2dLinkColor, Len(Det2dSkeleton.bones))

\* C9 (as claimed): with a color list of the wrong length every render call
\* ends in a fatal error, whatever the track ids and the scores.
C9_AsClaimed ==
  /\ Mismatch3d => ~Returned
  /\ (Mismatch2d /\ args.draw_2d /\ Det.has_pred) => ~Returned

\* C9 (amended): a color list of the wrong length is a fatal error as soon
\* as an instance is drawn with it: a call returns with such a list only if
\* the 2D renderer met no instance with a track id other than -1, and the
\* 3D plotter only instances it skipped (track id -1 or below the gate); a
\* ValueError is raised only for such a list, and leaves no frame.
C9_ShapeError ==
  /\ (Returned /\ args.draw_2d /\ Det.has_kpts
        /\ \E p \in 1..Det.n : args.track_ids[p] # -1) => ~Mismatch2d
  /\ (Returned /\ Mismatch3d) =>
       /\ \A p \in 1..idx : args.track_ids[p] # -1 => GatedOut(p)
       /\ \A k \in DOMAIN pose3d_data_dic : ~pose3d_data_dic[k].scatter
  /\ pc = "raised" =>
       /\ err \in {"ValueError", "TypeError"}
       /\ err = "ValueError" => (Mismatch2d \/ Mismatch3d)
  /\ err # "" => pc = "raised"

C9_Witness ==
  /\ pc = "raised" /\ err = "ValueError"
  /\ WrongLength(self.kpt_color, NumKpts)
  /\ fig = "pending"
  /\ ~GatedOut(idx + 1)

\* C10 (as claimed): at most one figure is open at any time, a figure is
\* closed before the next is created, and on every exit of the call, normal
\* or by an exception, no figure it created is left open.
C10_AsClaimed ==
  /\ open_figs <= 1
  /\ pc \in {"loop", "pad", "dummy", "finish", "done"} => open_figs = 0
  /\ pc = "raised" => open_figs = 0

\* the 2D renderer has returned its overlay
Overlaid ==
  /\ args.draw_2d /\ Det.has_kpts
  /\ pc \notin {"start", "draw2d"}
  /\ ~(pc = "raised" /\ fig = "none")
HasColor(c, k) == c.kind = "str" \/ (c.kind = "list" /\ k \notin c.unset)

\* C11: in the 2D overlay a keypoint of an instance with a track id other
\* than -1 is drawn exactly when its score is at least the threshold, it is
\* visible and it has a color; a keypoint that is not drawn raises nothing.
C11_KeypointDrawn ==
  /\ Overlaid =>
       \A p \in 1..Det.n : args.track_ids[p] # -1 =>
         \A k \in Kpts :
           <<p, k>> \in pose_2d_data.circles <=>
             /\ Scores2dOf(Det)[p][k] >= args.kpt_thr
             /\ Det.visible[p][k]
             /\ HasColor(Det2dKptColor, k)
  /\ (pc = "raised" /\ fig = "none") => Mismatch2d

C11_Witness ==
  /\ Overlaid /\ Returned
  /\ args.track_ids[1] # -1
  /\ Scores2dOf(Det)[1][1] = args.kpt_thr
  /\ <<1, 1>> \in pose_2d_data.circles
  /\ Scores2dOf(Det)[1][2] < args.kpt_thr
  /\ <<1, 2>> \notin pose_2d_data.circles

StrictlyInside(pos) ==
  /\ 0 < PixelOf(pos[1]) /\ PixelOf(pos[1]) < args.image.w
  /\ 0 < PixelOf(pos[2]) /\ PixelOf(pos[2]) < args.image.h

\* C12: in the 2D overlay a bone of an instance with a track id other than
\* -1 is drawn exactly when both endpoints are visible, both have integer
\* pixel coordinates with 0 < x < width and 0 < y < height, both have a score
\* of at least the threshold, and the bone has a color.
C12_BoneDrawn ==
  Overlaid =>
    /\ \A l \in pose_2d_data.lines :
         Det2dSkeleton.set /\ l[2] \in 1..Len(Det2dSkeleton.bones)
    /\ Det2dSkeleton.set =>
         \A p \in 1..Det.n : args.track_ids[p] # -1 =>
           \A b \in 1..Len(Det2dSkeleton.bones) :
             LET sk == Det2dSkeleton.bones[b] IN
             <<p, b>> \in pose_2d_data.lines <=>
               /\ Det.visible[p][sk[1]] /\ Det.visible[p][sk[2]]
               /\ StrictlyInside(Det.xy[p][sk[1]])
               /\ StrictlyInside(Det.xy[p][sk[2]])
               /\ Scores2dOf(Det)[p][sk[1]] >= args.kpt_thr
               /\ Scores2dOf(Det)[p][sk[2]] >= args.kpt_thr
               /\ HasColor(Det2dLinkColor, b)

\* an endpoint on the right border (pixel x = width) suppresses a bone that
\* passes every other test
C12_Witness ==
  /\ Overlaid /\ Returned
  /\ args.track_ids[1] # -1
  /\ Det2dSkeleton.set /\ HasColor(Det2dLinkColor, 1)
  /\ Det.visible[1][1] /\ Det.visible[1][2]
  /\ Scores2dOf(Det)[1][1] = args.kpt_thr
  /\ Scores2dOf(Det)[1][2] >= args.kpt_thr
  /\ PixelOf(Det.xy[1][1][1]) = args.image.w
  /\ StrictlyInside(Det.xy[1][2])
  /\ <<1, 1>> \notin pose_2d_data.lines

\* what line 247 asks of bone b of the instance at position p
Exceeds3d(p, b) ==
  LET sk == self.skeleton.bones[b]
      score == Scores3dOf(args.data_sample)[p]
      gate == scores_2d.rows[p] IN
  /\ score[sk[1]] > args.kpt_thr /\ score[sk[2]] > args.kpt_thr
  /\ gate[sk[1]] > args.kpt_thr /\ gate[sk[2]] > args.kpt_thr

BonesConfigured3d == self.skeleton.set /\ self.link_color.kind # "none"

\* C13: in a 3D plot that is not skipped, with a skeleton and bone colors
\* configured, a bone is drawn exactly when the 3D score and the 2D gate
\* score both exceed the threshold at both of its endpoints; a score equal
\* to the threshold suppresses the bone.
C13_Bone3d ==
  BonesConfigured3d =>
    /\ (pc \in {"drawn", "captured"} /\ fig = "rendered") =>
         \A b \in 1..Len(self.skeleton.bones) :
           b \in ax.bones <=> Exceeds3d(idx + 1, b)
    /\ Returned =>
         \A k \in RealKeys : pose3d_data_dic[k].scatter =>
           \A b \in 1..Len(self.skeleton.bones) :
             b \in pose3d_data_dic[k].bones
               <=> Exceeds3d(pose3d_data_dic[k].src, b)

C13_Witness ==
  /\ Returned /\ BonesConfigured3d
  /\ \E k \in RealKeys :
       LET p == pose3d_data_dic[k].src
           sk == self.skeleton.bones[1] IN
       /\ pose3d_data_dic[k].scatter
       /\ 1 \notin pose3d_data_dic[k].bones
       /\ Scores3dOf(args.data_sample)[p][sk[1]] = args.kpt_thr
       /\ Scores3dOf(args.data_sample)[p][sk[2]] > args.kpt_thr
       /\ scores_2d.rows[p][sk[1]] > args.kpt_thr
       /\ scores_2d.rows[p][sk[2]] > args.kpt_thr

\* add_datasample hands no 2D score array to the plotter
GateAbsent == ~(args.draw_2d /\ Det.has_pred /\ Det.has_kpts)

\* C14: without a 2D score array the plotter gates on an array of ones of
\* the shape of the 3D scores: for a threshold of at most 1 an instance is
\* skipped exactly when the mean of its 3D scores is below the threshold,
\* and a bone is drawn exactly when both endpoint 3D scores exceed it.
C14_AbsentGate ==
  (GateAbsent /\ args.kpt_thr <= One) =>
    /\ (InPlotter /\ args.data_sample.has_kpts) =>
         /\ Len(scores_2d.rows) = Len(pred_instances)
         /\ \A p \in 1..Len(scores_2d.rows) : \A k \in Kpts :
              scores_2d.rows[p][k] = One
    /\ pc \in {"drawn", "captured"} =>
         (ax.scatter <=>
            ~LowOnAverage(Scores3dOf(args.data_sample)[idx + 1]))
    /\ Returned =>
         \A key \in RealKeys :
           LET plot == pose3d_data_dic[key]
               score == Scores3dOf(args.data_sample)[plot.src] IN
           /\ plot.scatter <=> ~LowOnAverage(score)
           /\ (plot.scatter /\ BonesConfigured3d) =>
                \A b \in 1..Len(self.skeleton.bones) :
                  b \in plot.bones <=>
                    /\ score[self.skeleton.bones[b][1]] > args.kpt_thr
                    /\ score[self.skeleton.bones[b][2]] > args.kpt_thr

C14_Witness ==
  /\ Returned /\ GateAbsent /\ args.kpt_thr <= One
  /\ Det.has_pred /\ ~args.draw_2d
  /\ \E key \in RealKeys :
       /\ pose3d_data_dic[key].scatter
       /\ pose3d_data_dic[key].bones # {}
       /\ LowOnAverage(Det.scores[1])

\* C15 (as claimed): on every call that returns, every instance the
\* selector kept whose track id is not -1 has its track id as a key of the
\* map, also when the 2D score array has fewer rows than the 3D sample has
\* instances.
C15_AsClaimed ==
  Returned =>
    \A p \in 1..Len(pred_instances) : args.track_ids[p] # -1 =>
      args.track_ids[p] \in RealKeys

====
